---- MODULE Spec2Model ----
(***************************************************************************)
(* Model of the provisioning scripts of lab5-programmable-cloud:           *)
(*   part1/part1.py          firewall + instance + external-IP wait        *)
(*   part2/part2.py          snapshot of the base instance + clone fleet   *)
(*   part3/part3.py          VM1 launch carrying the metadata relay        *)
(*   part3/vm1-launch-vm2.py VM2 launch, run on VM1                        *)
(* The provider (Compute API) is the environment: an inventory of named    *)
(* resources and a list of long-running operations.                        *)
(***************************************************************************)
EXTENDS Naturals, Sequences, FiniteSets, TLC

\* ------------------------------------------------------------------ bounds
\* status fetches one wait may need before the operation reads DONE
MaxPolls == 3
\* largest --count of a part2 run
MaxCount == 2

\* --------------------------------------------------------- program constants
ReadinessAttempts == 80
SNAPSHOT_PREFIX == "base-snapshot"
INSTANCE_DEFAULT == "flask-vm"
FIREWALL_DEFAULT == "allow-5000"
VM1_NAME == "vm1-launcher"
VM2_NAME == "vm2-flask"
fw_name == "allow-5001"

Runs == {1, 2}
Progs == {"part1", "part2", "part3", "vm1"}

\* A resource name: f"{prefix}-{base}" or f"{base}-clone-{clone}" (clone = 0: plain)
Name(prefix, base, clone) == [prefix |-> prefix, base |-> base, clone |-> clone]
Res(kind, name) == [kind |-> kind, name |-> name]

Firewall5000 == Res("firewall", Name("", FIREWALL_DEFAULT, 0))
Firewall5001 == Res("firewall", Name("", fw_name, 0))
BaseInstance == Res("instance", Name("", INSTANCE_DEFAULT, 0))
VM1 == Res("instance", Name("", VM1_NAME, 0))
VM2 == Res("instance", Name("", VM2_NAME, 0))
\* part2.py:66  snapshot_name = f"{SNAPSHOT_PREFIX}-{base_instance}"
snapshot_name(base_instance) == Name(SNAPSHOT_PREFIX, base_instance, 0)
\* part2.py:159 name = f"{args.base_instance}-clone-{i}"
clone_name(base_instance, i) == Name("", base_instance, i)
Snapshot == Res("snapshot", snapshot_name(INSTANCE_DEFAULT))
Clone(i) == Res("instance", clone_name(INSTANCE_DEFAULT, i))

Resources ==
    {Firewall5000, Firewall5001, BaseInstance, VM1, VM2, Snapshot}
        \cup {Clone(i) : i \in 1..MaxCount}

\* ------------------------------------------------------------ error values
\* The argument an exception carries: a provider error payload (a dict), a
\* string, or an HTTP status.
Arg(repr, body) == [repr |-> repr, body |-> body]
NoError == Arg("none", "")
Payloads == {Arg("dict", "QUOTA_EXCEEDED"), Arg("dict", "ZONE_RESOURCE_POOL_EXHAUSTED")}
\* Python str(x) of a dict: the text of the dict, no longer the dict
str(x) == Arg("str", x.body)
Exc(type, arg) == [type |-> type, arg |-> arg]
NoExc == Exc("none", NoError)
HttpError(status) == Exc("HttpError", Arg("status", status))
RuntimeError(arg) == Exc("RuntimeError", arg)
TimedOut == Arg("str", "Timed out waiting for external IP")
NoBootDisk == Arg("str", "Could not find boot disk on instance")

\* ------------------------------------------------- files, metadata, configs
\* A text value: what it holds and whether it ends in a newline.
Value(text, nl) == [text |-> text, nl |-> nl]
Missing == Value("", FALSE)
\* part3.py:27-29  the contents of a file of the operator's directory
read_file(path) == Value(path, TRUE)
\* part3.py:36  os.getenv("GOOGLE_CLOUD_PROJECT") or the default project id
project == Value("project-id", FALSE)
\* part3.py:49-74  the text of VM1's startup script
vm1_startup == Value("vm1_startup", TRUE)
\* part1.py:84-111
startup_script == Value("startup_script()", TRUE)

Item(key, value) == [key |-> key, value |-> value]

\* mutant: the project id is not relayed
vm1_metadata_items_no_project ==
    << Item("startup-script", vm1_startup),
       Item("vm2-startup-script", read_file("vm2-startup.sh")),
       Item("service-credentials", read_file("service-credentials.json")),
       Item("vm1-launch-vm2-code", read_file("vm1-launch-vm2.py")) >>

\* part3.py:92-100  config["metadata"]["items"]
vm1_metadata_items ==
    << Item("startup-script", vm1_startup),
       Item("vm2-startup-script", read_file("vm2-startup.sh")),
       Item("service-credentials", read_file("service-credentials.json")),
       Item("vm1-launch-vm2-code", read_file("vm1-launch-vm2.py")),
       Item("project", project) >>

\* The body of an insert: the keys of the boot disk's initializeParams and the
\* metadata items (both empty for a firewall rule or a snapshot).
Config(initializeParams, items) ==
    [initializeParams |-> initializeParams, metadata |-> items]
NoConfig == Config({}, <<>>)
\* part1.py:117-133
part1_config == Config({"sourceImage"}, << Item("startup-script", startup_script) >>)
\* mutant: the clone config keeps an image source next to the snapshot source
part2_cfg_both == Config({"sourceImage", "sourceSnapshot"}, <<>>)

\* part2.py:96-110
part2_cfg == Config({"sourceSnapshot"}, <<>>)
\* part3.py:76-101
part3_config == Config({"sourceImage"}, vm1_metadata_items)
\* vm1-launch-vm2.py:74-92
vm1_config(vm2_startup) ==
    Config({"sourceImage"}, << Item("startup-script", vm2_startup) >>)

\* The metadata server: the value of an instance attribute, Missing on 404.
Attribute(items, key) ==
    IF \E i \in 1..Len(items) : items[i].key = key
    THEN items[CHOOSE i \in 1..Len(items) : items[i].key = key].value
    ELSE Missing

\* part3.py:55-65  curl -fsS .../attributes/<key> > <file>, run in /srv
Fetch(key, file) == [key |-> key, file |-> file]
GuestFetches ==
    << Fetch("vm2-startup-script", "vm2-startup-script.sh"),
       Fetch("service-credentials", "service-credentials.json"),
       Fetch("vm1-launch-vm2-code", "vm1-launch-vm2.py"),
       Fetch("project", "project.txt") >>
GuestFiles == {GuestFetches[i].file : i \in 1..Len(GuestFetches)}
KeyOf(file) ==
    GuestFetches[CHOOSE i \in 1..Len(GuestFetches) : GuestFetches[i].file = file].key
\* part3.py:67  "$(cat project.txt)": trailing newlines are dropped
cat_subst(v) == [v EXCEPT !.nl = FALSE]
NoFiles == [f \in GuestFiles |-> Missing]
FileNotFoundError(file) == Exc("FileNotFoundError", Arg("str", file))
CurlError == Exc("curl", Arg("status", "404"))
ProjectNotSet == Arg("str", "GOOGLE_CLOUD_PROJECT not set on VM1")

VARIABLES
    metadata,   \* the metadata items of VM1, as submitted with its creation
    inv,        \* provider inventory: resource -> "absent" | "creating" | "ready"
    natIP,      \* instances whose description exposes a NAT address
    ops,        \* provider operations, in order of issue
    createLog,  \* the mutating calls issued so far, in order
    run         \* per run: program, position and locals

vars == <<metadata, inv, natIP, ops, createLog, run>>

\* ------------------------------------------------- results of a call
Return(v) == [act |-> "return", val |-> v, exc |-> NoExc]
Raise(e) == [act |-> "raise", val |-> "", exc |-> e]
Sleep == [act |-> "sleep", val |-> "", exc |-> NoExc]

\* ------------------------------------------------- operation pollers
\* One pass of the loop body on the fetched operation: return on DONE,
\* raise on DONE with an error, else sleep and fetch again.
\* mutant: the error of a DONE operation is not looked at
part1_wait_for_zone_op_ignores_error(op) ==
    IF op.status = "DONE" THEN Return("None") ELSE Sleep

part1_wait_for_zone_op(op) ==
    IF op.status = "DONE"
    THEN IF op.err # NoError THEN Raise(RuntimeError(op.err)) ELSE Return("None")
    ELSE Sleep

\* mutant: RUNNING is taken for DONE
part1_wait_for_global_op_early(op) ==
    IF op.status # "PENDING"
    THEN IF op.err # NoError THEN Raise(RuntimeError(op.err)) ELSE Return("None")
    ELSE Sleep

part1_wait_for_global_op(op) ==
    IF op.status = "DONE"
    THEN IF op.err # NoError THEN Raise(RuntimeError(op.err)) ELSE Return("None")
    ELSE Sleep

\* mutant: RUNNING is taken for DONE
part2_wait_for_zone_op_early(op) ==
    IF op.status # "PENDING"
    THEN IF op.err # NoError THEN Raise(RuntimeError(op.err)) ELSE Return("op")
    ELSE Sleep

\* mutant: the error of a DONE operation is not looked at
part2_wait_for_zone_op_ignores_error(op) ==
    IF op.status = "DONE" THEN Return("op") ELSE Sleep

part2_wait_for_zone_op(op) ==
    IF op.status = "DONE"
    THEN IF op.err # NoError THEN Raise(RuntimeError(op.err)) ELSE Return("op")
    ELSE Sleep

\* mutant: the status is compared with a value the provider never reports
part3_wait_for_zone_op_never_done(op) ==
    IF op.status = "done"
    THEN IF op.err # NoError THEN Raise(RuntimeError(str(op.err))) ELSE Return("None")
    ELSE Sleep

part3_wait_for_zone_op(op) ==
    IF op.status = "DONE"
    THEN IF op.err # NoError THEN Raise(RuntimeError(str(op.err))) ELSE Return("None")
    ELSE Sleep

vm1_wait_for_zone_op(op) ==
    IF op.status = "DONE"
    THEN IF op.err # NoError THEN Raise(RuntimeError(str(op.err))) ELSE Return("None")
    ELSE Sleep

\* mutant: RUNNING is taken for DONE
vm1_wait_global_inline_early(op) ==
    IF op.status # "PENDING"
    THEN IF op.err # NoError THEN Raise(RuntimeError(str(op.err))) ELSE Return("None")
    ELSE Sleep

\* vm1-launch-vm2.py:64-72, the inline loop on the firewall's global operation
vm1_wait_global_inline(op) ==
    IF op.status = "DONE"
    THEN IF op.err # NoError THEN Raise(RuntimeError(str(op.err))) ELSE Return("None")
    ELSE Sleep

\* ------------------------------------------------- lookup wrappers
\* resp is the HTTP status of the point lookup: "200", "404" or another error
\* mutant: the firewall is never reported as existing
firewall_exists_blind(resp) ==
    IF resp \in {"200", "404"} THEN Return("False") ELSE Raise(HttpError(resp))

firewall_exists(resp) ==
    IF resp = "200" THEN Return("True")
    ELSE IF resp = "404" THEN Return("False")
    ELSE Raise(HttpError(resp))

part1_instance_get(resp) ==
    IF resp = "200" THEN Return("inst")
    ELSE IF resp = "404" THEN Return("None")
    ELSE Raise(HttpError(resp))

\* part2.py:37-38 has no try/except: every HttpError propagates
part2_instance_get(resp) ==
    IF resp = "200" THEN Return("inst") ELSE Raise(HttpError(resp))

\* mutant: no not-found handling
snapshot_get_unguarded(resp) ==
    IF resp = "200" THEN Return("snap") ELSE Raise(HttpError(resp))

snapshot_get(resp) ==
    IF resp = "200" THEN Return("snap")
    ELSE IF resp = "404" THEN Return("None")
    ELSE Raise(HttpError(resp))

\* mutant: an instance that is found is reported as not there
instance_exists_blind(resp) ==
    IF resp \in {"200", "404"} THEN Return("False") ELSE Raise(HttpError(resp))

instance_exists(resp) ==
    IF resp = "200" THEN Return("True")
    ELSE IF resp = "404" THEN Return("False")
    ELSE Raise(HttpError(resp))

\* vm1-launch-vm2.py:52-54  try: firewalls().get(...)  except Exception: <create>
vm1_firewall_lookup(resp) ==
    IF resp = "200" THEN Return("found") ELSE Return("except")

\* mutant: the address is never extracted
get_external_ip_blind(inst) == "None"

\* part1.py:77-81 on an instance description
get_external_ip(inst) == IF inst.hasNat THEN "ip" ELSE "None"

\* mutant: an instance that is not there yields a placeholder address
external_ip_or_placeholder(val, inst) ==
    IF val = "inst" THEN get_external_ip(inst) ELSE "unknown"

\* part1.py:165  ip = get_external_ip(inst) if inst else None
external_ip_or_none(val, inst) ==
    IF val = "inst" THEN get_external_ip(inst) ELSE "None"

\* ------------------------------------------------- provider responses
GetResponses(x) == (IF inv[x] # "absent" THEN {"200"} ELSE {"404"}) \cup {"403"}
InsertResponses(x) == (IF inv[x] # "absent" THEN {"409"} ELSE {"200"}) \cup {"403"}
Describe(x) == [hasNat |-> x \in natIP]

\* call: the position of the creating call in createLog
NewOp(r, x, scope) ==
    [owner |-> r, res |-> x, scope |-> scope, status |-> "PENDING",
     err |-> NoError, observed |-> FALSE, call |-> Len(createLog) + 1]

\* ------------------------------------------------- run records
IdleRun ==
    [prog |-> "none", pc |-> "idle", count |-> 0, i |-> 0, op |-> 0, polls |-> 0,
     firstDone |-> 0, attempts |-> 0, ipAt |-> 0, lastLookup |-> "none",
     outcome |-> NoExc, at |-> "", result |-> [x \in Resources |-> "none"],
     times |-> <<>>, invoked |-> <<>>,
     files |-> NoFiles, env |-> Missing, vm2_startup |-> Missing]

Entry(p) ==
    CASE p = "part1" -> "p1_firewall_exists"
      [] p = "part2" -> "p2_base_instance_get"
      [] p = "part3" -> "p3_get_image"
      [] p = "vm1" -> "g_startup"

Ended(r) == run[r].pc = "exited"
Failed(s, e) == [s EXCEPT !.pc = "failed", !.outcome = e, !.at = s.pc]
Goto(s, l) == [s EXCEPT !.pc = l]
Looked(s, resp) == [s EXCEPT !.lastLookup = resp]
Ensured(s, x, how) == [s EXCEPT !.result = [@ EXCEPT ![x] = how]]

Init ==
    /\ inv \in {f \in [Resources -> {"absent", "ready"}] :
                  \A x \in Resources \ {BaseInstance, VM1} : f[x] = "absent"}
    /\ metadata = IF inv[VM1] = "ready" THEN vm1_metadata_items ELSE <<>>
    /\ natIP = {}
    /\ ops = <<>>
    /\ createLog = <<>>
    /\ run = [r \in Runs |-> IdleRun]

\* ------------------------------------------------- provider steps
\* An operation moves PENDING -> RUNNING -> DONE; at DONE it either carries an
\* error payload (the resource is not created) or none (the resource is ready).
OpAdvance ==
    \E o \in 1..Len(ops) :
        /\ ops[o].status # "DONE"
        /\ IF ops[o].status = "PENDING"
           THEN /\ ops' = [ops EXCEPT ![o].status = "RUNNING"]
                /\ UNCHANGED <<inv, metadata>>
           ELSE \E e \in Payloads \cup {NoError} :
                /\ ops' = [ops EXCEPT ![o].status = "DONE", ![o].err = e]
                /\ inv' = [inv EXCEPT ![ops[o].res] =
                              IF e = NoError THEN "ready" ELSE "absent"]
                /\ metadata' = IF ops[o].res = VM1 /\ e # NoError
                               THEN <<>> ELSE metadata
        /\ UNCHANGED <<natIP, createLog, run>>

AssignNatIP ==
    /\ inv[BaseInstance] = "ready"
    /\ BaseInstance \notin natIP
    /\ natIP' = natIP \cup {BaseInstance}
    /\ UNCHANGED <<metadata, inv, ops, createLog, run>>

\* ------------------------------------------------- shared call shapes
\* <kind>().insert(...).execute(): the call is issued; the provider answers with
\* an operation handle or raises HttpError.
Insert(r, x, scope, body, dep, next) ==
    \E resp \in InsertResponses(x) :
        /\ createLog' = Append(createLog,
               [run |-> r, res |-> x, was |-> inv[x],
                lookup |-> run[r].lastLookup, dep |-> dep, body |-> body])
        /\ IF resp = "200"
           THEN /\ ops' = Append(ops, NewOp(r, x, scope))
                /\ inv' = [inv EXCEPT ![x] = "creating"]
                /\ metadata' = IF x = VM1 THEN body.metadata ELSE metadata
                /\ run' = [run EXCEPT ![r] =
                       [@ EXCEPT !.pc = next, !.op = Len(ops) + 1,
                                 !.polls = 0, !.firstDone = 0]]
           ELSE /\ UNCHANGED <<ops, inv, metadata>>
                /\ run' = [run EXCEPT ![r] = Failed(@, HttpError(resp))]
        /\ UNCHANGED natIP

\* The operation a run awaits, and the run record after one more status fetch.
AwaitedOp(r) == ops[run[r].op]

Fetched(r) ==
    [run[r] EXCEPT
        !.polls = @ + 1,
        !.firstDone = IF @ = 0 /\ AwaitedOp(r).status = "DONE"
                      THEN run[r].polls + 1 ELSE @]

\* One status fetch of the run's operation; res is the poller's reaction to the
\* fetched operation, after the run record if the poller returns.
Wait(r, res, after) ==
    /\ AwaitedOp(r).status = "DONE" \/ run[r].polls + 1 < MaxPolls
    /\ ops' = [ops EXCEPT ![run[r].op].observed = @ \/ AwaitedOp(r).status = "DONE"]
    /\ run' = [run EXCEPT ![r] =
           CASE res.act = "return" -> after
             [] res.act = "raise" -> Failed(Fetched(r), res.exc)
             [] res.act = "sleep" -> Fetched(r)]
    /\ UNCHANGED <<metadata, inv, natIP, createLog>>

\* A point lookup that changes nothing at the provider.
LookupOnly == UNCHANGED <<metadata, inv, natIP, ops, createLog>>

\* ------------------------------------------------- starting a run
Begin(r, p, c) ==
    run' = [run EXCEPT ![r] =
               [IdleRun EXCEPT !.prog = p, !.pc = Entry(p), !.count = c]]

\* vm1-launch-vm2.py runs on VM1, from VM1's startup script
CanStart(p) == p = "vm1" => inv[VM1] = "ready"

\* Runs one after the other: a run starts when the earlier runs have ended.
Start(r) ==
    /\ run[r].pc = "idle"
    /\ \A q \in Runs : q < r => Ended(q)
    /\ \E p \in Progs : \E c \in (IF p = "part2" THEN 0..MaxCount ELSE {0}) :
          CanStart(p) /\ Begin(r, p, c)
    /\ LookupOnly

\* Two runs of the same command line, interleaved: a run starts at any time.
StartConc(r) ==
    /\ run[r].pc = "idle"
    /\ \E p \in Progs : \E c \in (IF p = "part2" THEN 0..MaxCount ELSE {0}) :
          /\ CanStart(p)
          /\ \A q \in Runs : run[q].prog = "none"
                               \/ (run[q].prog = p /\ run[q].count = c)
          /\ Begin(r, p, c)
    /\ LookupOnly

\* ------------------------------------------------- part1/part1.py
\* ensure_firewall_allow_5000, line 48
P1_firewall_exists(r) ==
    /\ run[r].pc = "p1_firewall_exists"
    /\ \E resp \in GetResponses(Firewall5000) :
          LET res == firewall_exists(resp)
              s == Looked(run[r], resp)
          IN  run' = [run EXCEPT ![r] =
                  IF res.act = "raise" THEN Failed(s, res.exc)
                  ELSE IF res.val = "True"
                       THEN Goto(Ensured(s, Firewall5000, "Existing"), "p1_instance_get")
                       ELSE Goto(s, "p1_firewall_insert")]
    /\ LookupOnly

\* ensure_firewall_allow_5000, line 63
P1_firewall_insert(r) ==
    /\ run[r].pc = "p1_firewall_insert"
    /\ Insert(r, Firewall5000, "global", NoConfig, "n/a", "p1_wait_for_global_op")

P1_firewall_created(s) ==
    Goto(Ensured(s, Firewall5000, "Created"), "p1_instance_get")

\* ensure_firewall_allow_5000, line 64
P1_wait_for_global_op(r) ==
    /\ run[r].pc = "p1_wait_for_global_op"
    /\ Wait(r, part1_wait_for_global_op(AwaitedOp(r)), P1_firewall_created(Fetched(r)))

\* main, lines 157-158
P1_instance_get(r) ==
    /\ run[r].pc = "p1_instance_get"
    /\ \E resp \in GetResponses(BaseInstance) :
          LET res == part1_instance_get(resp)
              s == Looked(run[r], resp)
          IN  run' = [run EXCEPT ![r] =
                  IF res.act = "raise" THEN Failed(s, res.exc)
                  ELSE IF res.val = "None"
                       THEN Goto(s, "p1_create_instance")
                       ELSE Goto(Ensured(s, BaseInstance, "Existing"), "p1_wait_ip")]
    /\ LookupOnly

\* create_instance, line 135
P1_create_instance(r) ==
    /\ run[r].pc = "p1_create_instance"
    /\ Insert(r, BaseInstance, "zone", part1_config, "n/a", "p1_wait_for_zone_op")

P1_instance_created(s) ==
    Goto(Ensured(s, BaseInstance, "Created"), "p1_wait_ip")

\* create_instance, line 136
P1_wait_for_zone_op(r) ==
    /\ run[r].pc = "p1_wait_for_zone_op"
    /\ Wait(r, part1_wait_for_zone_op(AwaitedOp(r)), P1_instance_created(Fetched(r)))

\* main, lines 163-172: one pass of the for loop, or the raise after it
P1_wait_external_ip(r) ==
    /\ run[r].pc = "p1_wait_ip"
    /\ IF run[r].attempts >= ReadinessAttempts
       THEN run' = [run EXCEPT ![r] = Failed(@, RuntimeError(TimedOut))]
       ELSE \E resp \in GetResponses(BaseInstance) :
              LET res == part1_instance_get(resp)
                  ip == external_ip_or_none(res.val, Describe(BaseInstance))
                  s == [Looked(run[r], resp) EXCEPT
                          !.attempts = @ + 1,
                          !.ipAt = IF @ = 0 /\ resp = "200" /\ BaseInstance \in natIP
                                   THEN run[r].attempts + 1 ELSE @]
              IN  run' = [run EXCEPT ![r] =
                      IF res.act = "raise" THEN Failed(s, res.exc)
                      ELSE IF ip # "None" THEN Goto(s, "done")
                      ELSE s]
    /\ LookupOnly

\* ------------------------------------------------- part2/part2.py
\* main, line 158: the head of  for i in range(1, args.count + 1)
\* (lines 159-160: the name of clone i is built and the provisioner is called)
P2_loop_head_short(s) ==
    IF s.i < s.count
    THEN Goto([s EXCEPT !.invoked = Append(@, clone_name(INSTANCE_DEFAULT, s.i))],
              "p2_instance_exists")
    ELSE Goto(s, "p2_write_timing")

P2_loop_head(s) ==
    IF s.i <= s.count
    THEN Goto([s EXCEPT !.invoked = Append(@, clone_name(INSTANCE_DEFAULT, s.i))],
              "p2_instance_exists")
    ELSE Goto(s, "p2_write_timing")

P2_loop_enter(s) == P2_loop_head([s EXCEPT !.i = 1])

\* main, line 161: times.append((name, sec)), then the next i
P2_loop_next(s, sec) ==
    P2_loop_head([s EXCEPT
        !.times = Append(@, [name |-> clone_name(INSTANCE_DEFAULT, s.i), sec |-> sec]),
        !.i = @ + 1])

\* create_snapshot_from_instance_boot_disk, lines 51-60
P2_base_instance_get(r) ==
    /\ run[r].pc = "p2_base_instance_get"
    /\ \E resp \in GetResponses(BaseInstance) : \E boot \in BOOLEAN :
          LET res == part2_instance_get(resp)
              s == Looked(run[r], resp)
          IN  /\ res.act = "raise" => boot
              /\ run' = [run EXCEPT ![r] =
                  IF res.act = "raise" THEN Failed(s, res.exc)
                  ELSE IF ~boot THEN Failed(s, RuntimeError(NoBootDisk))
                  ELSE Goto(s, "p2_snapshot_get")]
    /\ LookupOnly

\* create_snapshot_from_instance_boot_disk, lines 68-70
P2_snapshot_get(r) ==
    /\ run[r].pc = "p2_snapshot_get"
    /\ \E resp \in GetResponses(Snapshot) :
          LET res == snapshot_get(resp)
              s == Looked(run[r], resp)
          IN  run' = [run EXCEPT ![r] =
                  IF res.act = "raise" THEN Failed(s, res.exc)
                  ELSE IF res.val # "None"
                       THEN P2_loop_enter(Ensured(s, Snapshot, "Existing"))
                       ELSE Goto(s, "p2_create_snapshot")]
    /\ LookupOnly

\* create_snapshot_from_instance_boot_disk, line 75
P2_create_snapshot(r) ==
    /\ run[r].pc = "p2_create_snapshot"
    /\ Insert(r, Snapshot, "zone", NoConfig, inv[BaseInstance], "p2_wait_snapshot")

P2_snapshot_created(s) == P2_loop_enter(Ensured(s, Snapshot, "Created"))

\* create_snapshot_from_instance_boot_disk, line 76
P2_wait_snapshot(r) ==
    /\ run[r].pc = "p2_wait_snapshot"
    /\ Wait(r, part2_wait_for_zone_op(AwaitedOp(r)), P2_snapshot_created(Fetched(r)))

\* create_instance_from_snapshot, lines 92-94
P2_instance_exists(r) ==
    /\ run[r].pc = "p2_instance_exists"
    /\ \E resp \in GetResponses(Clone(run[r].i)) :
          LET res == instance_exists(resp)
              s == Looked(run[r], resp)
          IN  run' = [run EXCEPT ![r] =
                  IF res.act = "raise" THEN Failed(s, res.exc)
                  ELSE IF res.val = "True"
                       THEN P2_loop_next(Ensured(s, Clone(s.i), "Existing"), "0.0")
                       ELSE Goto(s, "p2_clone_insert")]
    /\ LookupOnly

\* create_instance_from_snapshot, line 116
P2_clone_insert(r) ==
    /\ run[r].pc = "p2_clone_insert"
    /\ Insert(r, Clone(run[r].i), "zone", part2_cfg, inv[Snapshot], "p2_wait_clone")

P2_clone_created(s) == P2_loop_next(Ensured(s, Clone(s.i), "Created"), "elapsed")

\* create_instance_from_snapshot, line 117
P2_wait_clone(r) ==
    /\ run[r].pc = "p2_wait_clone"
    /\ Wait(r, part2_wait_for_zone_op(AwaitedOp(r)), P2_clone_created(Fetched(r)))

\* main, line 164
P2_write_timing(r) ==
    /\ run[r].pc = "p2_write_timing"
    /\ run' = [run EXCEPT ![r] = Goto(@, "done")]
    /\ LookupOnly

\* ------------------------------------------------- part3/part3.py
\* main, lines 39-42: images().getFromFamily; any HttpError propagates
P3_get_image(r) ==
    /\ run[r].pc = "p3_get_image"
    /\ \E resp \in {"200", "403"} :
          run' = [run EXCEPT ![r] =
              IF resp = "200" THEN Goto(@, "p3_insert_vm1")
              ELSE Failed(@, HttpError(resp))]
    /\ LookupOnly

\* main, line 104: no lookup of VM1 precedes the insert
P3_insert_vm1(r) ==
    /\ run[r].pc = "p3_insert_vm1"
    /\ Insert(r, VM1, "zone", part3_config, "n/a", "p3_wait_for_zone_op")

\* mutant: the orchestrator goes on to look VM2 up
P3_vm1_created_looks_for_vm2(s) == Goto(Ensured(s, VM1, "Created"), "v_instance_get")

\* main, lines 106-107: two prints, then main returns
P3_vm1_created(s) == Goto(Ensured(s, VM1, "Created"), "done")

\* main, line 105
P3_wait_for_zone_op(r) ==
    /\ run[r].pc = "p3_wait_for_zone_op"
    /\ Wait(r, part3_wait_for_zone_op(AwaitedOp(r)), P3_vm1_created(Fetched(r)))

\* ------------------------------------------------- part3/vm1-launch-vm2.py
\* part3.py:49-74  VM1's startup script, up to the launch of this program: each
\* attribute is fetched into its file (set -e ends the script at a failed curl)
G_startup(r) ==
    /\ run[r].pc = "g_startup"
    /\ LET fetched == [f \in GuestFiles |-> Attribute(metadata, KeyOf(f))]
       IN  run' = [run EXCEPT ![r] =
               IF \E f \in GuestFiles : fetched[f] = Missing
               THEN Failed(@, CurlError)
               ELSE Goto([@ EXCEPT !.files = fetched,
                                   !.env = cat_subst(fetched["project.txt"])],
                         "v_credentials")]
    /\ LookupOnly

\* main, lines 34-39: the credentials file and the project id
V_credentials(r) ==
    /\ run[r].pc = "v_credentials"
    /\ run' = [run EXCEPT ![r] =
           IF @.files["service-credentials.json"] = Missing
           THEN Failed(@, FileNotFoundError("service-credentials.json"))
           ELSE IF @.env = Missing THEN Failed(@, RuntimeError(ProjectNotSet))
           ELSE Goto(@, "v_get_image")]
    /\ LookupOnly

\* main, lines 43-48: the image lookup, then read_text("vm2-startup-script.sh")
V_get_image(r) ==
    /\ run[r].pc = "v_get_image"
    /\ \E resp \in {"200", "403"} :
          run' = [run EXCEPT ![r] =
              IF resp # "200" THEN Failed(@, HttpError(resp))
              ELSE IF @.files["vm2-startup-script.sh"] = Missing
              THEN Failed(@, FileNotFoundError("vm2-startup-script.sh"))
              ELSE Goto([@ EXCEPT !.vm2_startup = run[r].files["vm2-startup-script.sh"]],
                        "v_firewall_get")]
    /\ LookupOnly

\* main, lines 52-54
V_firewall_get(r) ==
    /\ run[r].pc = "v_firewall_get"
    /\ \E resp \in GetResponses(Firewall5001) :
          LET res == vm1_firewall_lookup(resp)
              s == Looked(run[r], resp)
          IN  run' = [run EXCEPT ![r] =
                  IF res.act = "raise" THEN Failed(s, res.exc)
                  ELSE IF res.val = "found"
                       THEN Goto(Ensured(s, Firewall5001, "Existing"), "v_insert_vm2")
                       ELSE Goto(s, "v_firewall_insert")]
    /\ LookupOnly

\* main, line 62
V_firewall_insert(r) ==
    /\ run[r].pc = "v_firewall_insert"
    /\ Insert(r, Firewall5001, "global", NoConfig, "n/a", "v_wait_global")

V_firewall_created(s) == Goto(Ensured(s, Firewall5001, "Created"), "v_insert_vm2")

\* main, lines 64-72
V_wait_global(r) ==
    /\ run[r].pc = "v_wait_global"
    /\ Wait(r, vm1_wait_global_inline(AwaitedOp(r)), V_firewall_created(Fetched(r)))

\* main, line 95: no lookup of VM2 precedes the insert
V_insert_vm2(r) ==
    /\ run[r].pc = "v_insert_vm2"
    /\ Insert(r, VM2, "zone", vm1_config(run[r].vm2_startup), "n/a", "v_wait_for_zone_op")

V_vm2_created(s) == Goto(Ensured(s, VM2, "Created"), "v_instance_get")

\* main, line 96
V_wait_for_zone_op(r) ==
    /\ run[r].pc = "v_wait_for_zone_op"
    /\ Wait(r, vm1_wait_for_zone_op(AwaitedOp(r)), V_vm2_created(Fetched(r)))

\* main, lines 98-105: any HttpError propagates; the address is only printed
V_instance_get(r) ==
    /\ run[r].pc = "v_instance_get"
    /\ \E resp \in GetResponses(VM2) :
          run' = [run EXCEPT ![r] =
              IF resp = "200" THEN Goto(Looked(@, resp), "done")
              ELSE Failed(Looked(@, resp), HttpError(resp))]
    /\ LookupOnly

\* ------------------------------------------------- process exit
\* if __name__ == "__main__": main()  -- main returned or an exception left it;
\* the process ends and only what it reported remains.
Exit(r) ==
    /\ run[r].pc \in {"done", "failed"}
    /\ run' = [run EXCEPT ![r] =
           [IdleRun EXCEPT !.prog = run[r].prog, !.count = run[r].count,
                           !.pc = "exited",
                           !.outcome = run[r].outcome, !.at = run[r].at,
                           !.result = run[r].result]]
    /\ LookupOnly

\* ------------------------------------------------- specifications
Provider == OpAdvance \/ AssignNatIP

\* every step that looks a resource up, creates it or awaits its operation
Reconcile(r) ==
    \/ P1_firewall_exists(r) \/ P1_firewall_insert(r) \/ P1_wait_for_global_op(r)
    \/ P1_instance_get(r) \/ P1_create_instance(r) \/ P1_wait_for_zone_op(r)
    \/ P2_base_instance_get(r) \/ P2_snapshot_get(r) \/ P2_create_snapshot(r)
    \/ P2_wait_snapshot(r) \/ P2_instance_exists(r) \/ P2_clone_insert(r)
    \/ P2_wait_clone(r) \/ P2_write_timing(r)
    \/ P3_get_image(r) \/ P3_insert_vm1(r) \/ P3_wait_for_zone_op(r)
    \/ G_startup(r) \/ V_credentials(r)
    \/ V_get_image(r) \/ V_firewall_get(r) \/ V_firewall_insert(r)
    \/ V_wait_global(r) \/ V_insert_vm2(r) \/ V_wait_for_zone_op(r)
    \/ V_instance_get(r)

Step(r) == Reconcile(r) \/ P1_wait_external_ip(r) \/ Exit(r)

Next == Provider \/ \E r \in Runs : Start(r) \/ Step(r)

Spec == Init /\ [][Next]_vars

\* The provider brings every operation to DONE, and a started process keeps
\* taking its steps (polling included).
\* One run, followed to its end from any inventory of firewall rules, base
\* instance, snapshot, VM1 and VM2 that earlier runs may have left.
InitLive ==
    /\ inv \in {f \in [Resources -> {"absent", "ready"}] :
                  \A i \in 1..MaxCount : f[Clone(i)] = "absent"}
    /\ metadata = IF inv[VM1] = "ready" THEN vm1_metadata_items ELSE <<>>
    /\ natIP = {}
    /\ ops = <<>>
    /\ createLog = <<>>
    /\ run = [r \in Runs |-> IdleRun]

NextLive == Provider \/ Start(1) \/ Step(1)

SpecLive ==
    /\ InitLive /\ [][NextLive]_vars
    /\ WF_vars(OpAdvance)
    /\ WF_vars(Step(1))

\* The relay: run 1 is part3.py on the operator's machine, run 2 is VM1's boot
\* (startup script, then vm1-launch-vm2.py), which starts once VM1 is ready,
\* whether or not part3.py has read that yet.
StartRelay(r) ==
    /\ run[r].pc = "idle"
    /\ \/ r = 1 /\ Begin(r, "part3", 0)
       \/ r = 2 /\ CanStart("vm1") /\ Begin(r, "vm1", 0)
    /\ LookupOnly

RelayStep(r) ==
    \/ P3_get_image(r) \/ P3_insert_vm1(r) \/ P3_wait_for_zone_op(r)
    \/ G_startup(r) \/ V_credentials(r)
    \/ V_get_image(r) \/ V_firewall_get(r) \/ V_firewall_insert(r)
    \/ V_wait_global(r) \/ V_insert_vm2(r) \/ V_wait_for_zone_op(r)
    \/ V_instance_get(r) \/ Exit(r)

NextRelay == OpAdvance \/ \E r \in Runs : StartRelay(r) \/ RelayStep(r)

SpecRelay == Init /\ [][NextRelay]_vars

\* Two interleaved runs of part1.py; run 1 is followed through its readiness
\* wait, during which the instance creation of run 2 may still fail.
StartReady(r) ==
    /\ run[r].pc = "idle"
    /\ Begin(r, "part1", 0)
    /\ LookupOnly

ReadyStep(r) ==
    \/ P1_firewall_exists(r) \/ P1_firewall_insert(r) \/ P1_wait_for_global_op(r)
    \/ P1_instance_get(r) \/ P1_create_instance(r) \/ P1_wait_for_zone_op(r)
    \/ Exit(r)

NextReady ==
    \/ Provider
    \/ \E r \in Runs : StartReady(r) \/ ReadyStep(r)
    \/ P1_wait_external_ip(1)

SpecReady == Init /\ [][NextReady]_vars

\* Two interleaved runs, followed through their reconcile steps: the readiness
\* wait of part1 issues no mutating call and is followed under Spec.
NextConc == Provider \/ \E r \in Runs : StartConc(r) \/ Reconcile(r) \/ Exit(r)

SpecConc == Init /\ [][NextConc]_vars

\* ------------------------------------------------- vocabulary of the claims
LookupPcs == {"p1_firewall_exists", "p1_instance_get", "p2_snapshot_get",
              "p2_instance_exists", "v_firewall_get"}
InsertPcs == {"p1_firewall_insert", "p1_create_instance", "p2_create_snapshot",
              "p2_clone_insert", "p3_insert_vm1", "v_firewall_insert", "v_insert_vm2"}
WaitPcs == {"p1_wait_for_global_op", "p1_wait_for_zone_op", "p2_wait_snapshot",
            "p2_wait_clone", "p3_wait_for_zone_op", "v_wait_global",
            "v_wait_for_zone_op"}

\* the resource a reconcile step of run record s works on
Target(s, pc) ==
    CASE pc \in {"p1_firewall_exists", "p1_firewall_insert", "p1_wait_for_global_op"}
            -> Firewall5000
      [] pc \in {"p1_instance_get", "p1_create_instance", "p1_wait_for_zone_op"}
            -> BaseInstance
      [] pc \in {"p2_snapshot_get", "p2_create_snapshot", "p2_wait_snapshot"}
            -> Snapshot
      [] pc \in {"p2_instance_exists", "p2_clone_insert", "p2_wait_clone"}
            -> Clone(s.i)
      [] pc \in {"p3_insert_vm1", "p3_wait_for_zone_op"} -> VM1
      [] pc \in {"v_firewall_get", "v_firewall_insert", "v_wait_global"}
            -> Firewall5001
      [] OTHER -> VM2

\* the resources the reconcile-or-create functions of part1 and part2 handle
EnsureResources ==
    {Firewall5000, BaseInstance, Snapshot} \cup {Clone(i) : i \in 1..MaxCount}

Calls == 1..Len(createLog)
Creates(r, x) == {k \in Calls : createLog[k].run = r /\ createLog[k].res = x}

\* ------------------------------------------------- C1
\* C1: once the first of two successive runs has ensured a resource (reported
\* Created or Existing), it issued exactly one create call for it if it
\* reported Created and none otherwise; the second run issues no create call
\* for it, reports Existing, and fails at that resource only when the lookup
\* itself raised a provider error other than not-found.
C1_EnsureIdempotent ==
    \A x \in EnsureResources :
        run[1].result[x] # "none" =>
            /\ Cardinality(Creates(1, x)) =
                   (IF run[1].result[x] = "Created" THEN 1 ELSE 0)
            /\ Creates(2, x) = {}
            /\ run[2].result[x] \in {"none", "Existing"}
            /\ (run[2].pc = "failed"
                  /\ run[2].at \in LookupPcs \cup InsertPcs \cup WaitPcs
                  /\ Target(run[2], run[2].at) = x)
               => /\ run[2].at \in LookupPcs
                  /\ run[2].outcome = HttpError("403")

C1_Witness ==
    /\ run[1].result[Snapshot] = "Created"
    /\ run[1].result[Clone(1)] = "Created"
    /\ run[2].result[Snapshot] = "Existing"
    /\ run[2].result[Clone(1)] = "Existing"
    /\ Cardinality(Creates(1, Snapshot)) = 1
    /\ Cardinality(Creates(1, Clone(1))) = 1

\* ------------------------------------------------- C2
\* C2: a second run of the same entry point, started after the first run has
\* ended, never issues a create call for a name that is in the inventory and
\* never fails with the provider's 'already exists' (409) error.
C2_SafeRerun ==
    run[2].prog = run[1].prog =>
        /\ \A k \in Calls : createLog[k].run = 2 => createLog[k].was = "absent"
        /\ run[2].outcome # HttpError("409")

\* ------------------------------------------------- C3
\* C3: no create call is issued by a run whose preceding lookup failed with an
\* error other than not-found.
C3_LookupErrorPropagates ==
    \A k \in Calls : createLog[k].lookup \in {"none", "200", "404"}

\* ------------------------------------------------- C4
\* C4: a wait returns exactly at the first status fetch that reads DONE: it is
\* still waiting while no fetch has read DONE, it has left the wait once one
\* has, it fetched nothing after that fetch, and it did not fail when the
\* operation carried no error.
C4_PollsExactlyK ==
    \A r \in Runs :
        run[r].op # 0 =>
            /\ run[r].firstDone = 0 => run[r].pc \in WaitPcs
            /\ run[r].firstDone # 0 =>
                  /\ run[r].polls = run[r].firstDone
                  /\ run[r].pc \notin WaitPcs
                  /\ ops[run[r].op].err = NoError =>
                        ~(run[r].pc = "failed" /\ run[r].at \in WaitPcs)

C4_Witness ==
    \E r \in Runs :
        /\ run[r].op # 0
        /\ run[r].firstDone = MaxPolls
        /\ run[r].polls = MaxPolls
        /\ ops[run[r].op].err = NoError
        /\ run[r].pc \notin WaitPcs \cup {"failed"}

\* ------------------------------------------------- C5
\* C5: a run that fails in a wait fails with a RuntimeError carrying exactly
\* the error payload of its operation, and only when the operation carries one.
C5_ErrorPayloadExact ==
    \A r \in Runs :
        (run[r].pc = "failed" /\ run[r].at \in WaitPcs) =>
            /\ ops[run[r].op].err # NoError
            /\ run[r].outcome = RuntimeError(ops[run[r].op].err)

\* ------------------------------------------------- C6
\* C6: the readiness wait of part1 makes at most ReadinessAttempts lookups; it
\* ends with the timeout error only after exactly ReadinessAttempts lookups
\* none of which exposed an address, and it returns at the first lookup that
\* exposes one, having made exactly that many lookups.
C6_BoundedReadiness ==
    \A r \in Runs :
        run[r].prog = "part1" =>
            /\ run[r].attempts <= ReadinessAttempts
            /\ (run[r].pc = "failed" /\ run[r].outcome = RuntimeError(TimedOut))
                  => run[r].attempts = ReadinessAttempts /\ run[r].ipAt = 0
            /\ run[r].pc = "done"
                  => run[r].ipAt # 0 /\ run[r].attempts = run[r].ipAt
            /\ run[r].ipAt # 0
                  => run[r].pc = "done" /\ run[r].attempts = run[r].ipAt
            /\ (run[r].pc = "failed" /\ run[r].at = "p1_wait_ip"
                  /\ run[r].attempts < ReadinessAttempts)
                  => run[r].outcome.type = "HttpError"

\* the first run timed out, the second returned at its 3rd lookup
C6_Witness ==
    /\ run[1].prog = "part1"
    /\ run[1].outcome = RuntimeError(TimedOut)
    /\ run[2].prog = "part1"
    /\ run[2].pc = "done"
    /\ run[2].attempts = 3
    /\ run[2].ipAt = 3

\* ------------------------------------------------- C7
\* C7 as claimed: every create call that depends on another resource (a clone
\* on the snapshot) is issued when that resource is fully created, also when
\* the resource was found by lookup.
C7_DependencyDone ==
    \A k \in Calls : createLog[k].dep \in {"n/a", "ready"}

\* the resource a create call depends on
DepOf(x) == IF x = Snapshot THEN BaseInstance ELSE Snapshot

\* C7 as amended: a create call that depends on a resource the same run
\* created earlier is issued only after the run has fetched that resource's
\* operation as DONE without error, and the resource is then fully created.
C7_OwnDependencyAwaited ==
    \A k \in Calls : \A o \in 1..Len(ops) :
        (/\ createLog[k].dep # "n/a"
         /\ ops[o].owner = createLog[k].run
         /\ ops[o].res = DepOf(createLog[k].res)
         /\ ops[o].call < k)
        => /\ ops[o].observed
           /\ ops[o].status = "DONE"
           /\ ops[o].err = NoError
           /\ createLog[k].dep = "ready"

\* a run created the snapshot and then issued the insert of its first clone
C7_Witness ==
    \E r \in Runs :
        /\ Creates(r, Snapshot) # {}
        /\ Creates(r, Clone(1)) # {}
        /\ run[r].result[Snapshot] = "Created"

\* ------------------------------------------------- C8
\* C8: once a run has fetched a DONE operation of its own that carries an
\* error, the run has failed in that wait, has issued no create call after the
\* one that made the operation, has made no readiness lookup, and the
\* resources it created before are still in the inventory.
C8_FailedOpAborts ==
    \A r \in Runs : \A o \in 1..Len(ops) :
        (ops[o].owner = r /\ ops[o].observed /\ ops[o].err # NoError) =>
            /\ run[r].pc \in {"failed", "exited"}
            /\ run[r].outcome.type = "RuntimeError"
            /\ run[r].at \in WaitPcs
            /\ \A k \in Calls : createLog[k].run = r => k <= ops[o].call
            /\ run[r].attempts = 0
            /\ run[r].pc = "failed" => Len(run[r].times) < run[r].i \/ run[r].i = 0
            /\ \A x \in Resources : run[r].result[x] = "Created" => inv[x] = "ready"

\* a part2 run failed awaiting its second clone; snapshot and first clone stay
C8_Witness ==
    \E r \in Runs :
        /\ run[r].prog = "part2"
        /\ run[r].pc = "failed"
        /\ run[r].at = "p2_wait_clone"
        /\ run[r].i = 2
        /\ ops[run[r].op].err \in Payloads
        /\ run[r].result[Snapshot] = "Created"
        /\ inv[Clone(1)] = "ready"

\* ------------------------------------------------- C9
\* C9: at the step in which an instance provisioning returns without error
\* (Existing or Created), the instance is in the provider's inventory.
Instances == {BaseInstance, VM1, VM2} \cup {Clone(i) : i \in 1..MaxCount}

C9_ProvisionPostcondition ==
    [][\A r \in Runs : \A x \in Instances :
          (run[r].result[x] = "none" /\ run'[r].result[x] # "none")
              => inv'[x] # "absent"]_vars

C9_Witness ==
    \E r \in Runs :
        /\ run[r].result[Clone(1)] = "Existing"
        /\ run[r].result[Clone(2)] = "Created"
        /\ inv[Clone(1)] = "ready"
        /\ inv[Clone(2)] = "ready"

\* ------------------------------------------------- C10
\* C10 as claimed: no run ends with the provider's not-found (404) error.
C10_NotFoundNeverFatal ==
    \A r \in Runs : run[r].outcome # HttpError("404")

\* C10 as amended: a 404 ends a run only in a lookup that has no not-found
\* handling: the base-instance lookup of part2 (and the read of VM2 after its
\* creation); every lookup that precedes a create recovers from it.
C10_NotFoundFatalOnlyAtBase ==
    \A r \in Runs :
        run[r].outcome = HttpError("404") =>
            run[r].at \in {"p2_base_instance_get", "v_instance_get"}

\* a 404 of the snapshot lookup led to the create call
C10_Witness ==
    \E r \in Runs :
        /\ run[r].lastLookup = "404"
        /\ run[r].pc = "p2_wait_snapshot"
        /\ Creates(r, Snapshot) # {}

\* C11 -- deterministic fleet naming: a part2 run with count n calls the
\* provisioner once for each of <base>-clone-1 .. <base>-clone-n, in increasing
\* order; every call that returns appends one timing record with the same name,
\* in the same order, with zero elapsed time exactly when the clone already
\* existed; a run that completes has exactly n records.
C11_FleetNaming ==
    \A r \in Runs :
        (run[r].prog = "part2" /\ run[r].pc \notin {"idle", "exited"}) =>
            LET called == run[r].invoked
                times == run[r].times
            IN  /\ \A j \in 1..Len(called) :
                      called[j] = Name("", INSTANCE_DEFAULT, j)
                /\ Len(called) <= run[r].count
                /\ Len(times) <= Len(called) /\ Len(called) <= Len(times) + 1
                /\ \A j \in 1..Len(times) :
                      /\ times[j].name = called[j]
                      /\ times[j].sec = "0.0" <=> run[r].result[Clone(j)] = "Existing"
                      /\ times[j].sec # "0.0" <=> run[r].result[Clone(j)] = "Created"
                /\ \A j \in 1..MaxCount : Cardinality(Creates(r, Clone(j))) <= 1
                /\ run[r].pc = "done" =>
                      Len(called) = run[r].count /\ Len(times) = run[r].count

\* a completed run of count 2 that found one clone and created the other
C11_Witness ==
    \E r \in Runs :
        /\ run[r].prog = "part2" /\ run[r].pc = "done" /\ run[r].count = 2
        /\ Len(run[r].times) = 2
        /\ run[r].times[1].sec = "0.0"
        /\ run[r].times[2].sec = "elapsed"

\* C14 -- relay payload completeness: the metadata submitted with VM1's
\* creation holds startup-script and every key the guest fetches; each file the
\* guest writes equals the value submitted under its key; the files and the
\* project id the secondary step reads are those, so it never misses one, and
\* the startup script it gives VM2 is the operator's vm2-startup.sh.
RelayKeys ==
    {"startup-script", "vm2-startup-script", "service-credentials",
     "vm1-launch-vm2-code", "project"}

C14_RelayComplete ==
    /\ \A k \in Calls :
          createLog[k].res = VM1 =>
              LET items == createLog[k].body.metadata
              IN  /\ \A key \in RelayKeys : Attribute(items, key) # Missing
                  /\ \A i \in 1..Len(GuestFetches) :
                        GuestFetches[i].key \in RelayKeys
    /\ \A r \in Runs :
          run[r].prog = "vm1" =>
              /\ run[r].outcome.type \notin {"curl", "FileNotFoundError"}
              /\ run[r].outcome # RuntimeError(ProjectNotSet)
              /\ run[r].pc \notin {"idle", "g_startup", "exited"} =>
                    /\ \A i \in 1..Len(GuestFetches) :
                          run[r].files[GuestFetches[i].file] =
                              Attribute(metadata, GuestFetches[i].key)
                    /\ run[r].env.text = Attribute(metadata, "project").text
              /\ run[r].vm2_startup # Missing =>
                    run[r].vm2_startup = Attribute(metadata, "vm2-startup-script")
    /\ \A k \in Calls :
          createLog[k].res = VM2 =>
              Attribute(createLog[k].body.metadata, "startup-script") =
                  read_file("vm2-startup.sh")

\* VM1 was created with the payload, and the program it launched created VM2
C14_Witness ==
    /\ \E k \in Calls : createLog[k].res = VM1 /\ createLog[k].was = "absent"
    /\ \E r \in Runs :
          /\ run[r].prog = "vm1" /\ run[r].pc = "v_instance_get"
          /\ Creates(r, VM2) # {}
          /\ run[r].files["service-credentials.json"] =
                 read_file("service-credentials.json")

\* C15 -- boot-source exclusivity: every instance insert issued by any entry
\* point carries exactly one boot source, an image or a snapshot, never both
\* and never none (no entry point can build a request with both).
BootSources == {"sourceImage", "sourceSnapshot"}

C12_Terminates ==
    /\ [](\A r \in Runs : run[r].pc \in WaitPcs => run[r].firstDone = 0)
    /\ \A r \in Runs : (run[r].pc # "idle") ~> (run[r].pc = "exited")

\* a run in a wait whose operation the provider has not finished yet, after a
\* fetch that did not read DONE
C12_Witness ==
    \E r \in Runs :
        /\ run[r].pc \in WaitPcs
        /\ run[r].polls >= 1
        /\ AwaitedOp(r).status # "DONE"

\* C13 -- fire-and-forget relay: a part3 run issues no lookup at all, and no
\* create call or operation of its own concerns anything but VM1; it returns
\* at the fetch that reads VM1's creation operation DONE, with a result fixed
\* by that operation alone, whatever has or has not happened to VM2.
C13_FireAndForget ==
    \A r \in Runs :
        run[r].prog = "part3" =>
            /\ run[r].lastLookup = "none"
            /\ \A k \in Calls : createLog[k].run = r => createLog[k].res = VM1
            /\ \A o \in 1..Len(ops) : ops[o].owner = r => ops[o].res = VM1
            /\ \A x \in Resources \ {VM1} : run[r].result[x] = "none"
            /\ run[r].pc \in WaitPcs => run[r].firstDone = 0
            /\ run[r].pc \in WaitPcs \cup {"done"} => AwaitedOp(r).res = VM1
            /\ run[r].pc = "done" =>
                  /\ run[r].firstDone = run[r].polls
                  /\ AwaitedOp(r).status = "DONE" /\ AwaitedOp(r).err = NoError
                  /\ run[r].result[VM1] = "Created"
            /\ (run[r].pc = "failed" /\ run[r].at = "p3_wait_for_zone_op") =>
                  /\ run[r].firstDone = run[r].polls
                  /\ AwaitedOp(r).err # NoError

\* the part3 run has returned with VM1 created while VM2's creation has failed
C13_Witness ==
    \E r \in Runs :
        /\ run[r].prog = "part3" /\ run[r].pc = "done"
        /\ \E o \in 1..Len(ops) :
              ops[o].res = VM2 /\ ops[o].status = "DONE" /\ ops[o].err # NoError

\* C16 -- Timeout is a distinct terminal error: a run that exhausted the
\* readiness attempts has ended, and the error it ended with is of another
\* kind than the error of any run that ended on a failed operation, so that a
\* caller catching the error can tell the two apart.
TimedOutRun(r) ==
    /\ run[r].at = "p1_wait_ip"
    /\ run[r].outcome.type # "HttpError"

OperationFailedRun(r) == run[r].at \in WaitPcs

C16_TimeoutDistinct ==
    \A r \in Runs :
        TimedOutRun(r) =>
            /\ run[r].pc \in {"failed", "exited"}
            /\ \A q \in Runs :
                  OperationFailedRun(q) => run[q].outcome.type # run[r].outcome.type

\* C17 -- check-then-create race: with two runs interleaved, a create call for
\* a name another party has created in the meantime is still issued, by a run
\* whose own lookup of that name had answered not-found; that run ends there
\* with the provider's error and reports the resource neither Created nor
\* Existing.
C17_RaceLoserFails ==
    \A k \in Calls :
        (createLog[k].res \in EnsureResources /\ createLog[k].was # "absent") =>
            LET r == createLog[k].run
            IN  /\ createLog[k].lookup = "404"
                /\ run[r].pc \in {"failed", "exited"}
                /\ run[r].at \in InsertPcs
                /\ run[r].outcome \in {HttpError("409"), HttpError("403")}
                /\ run[r].result[createLog[k].res] = "none"
                /\ \A j \in Calls : createLog[j].run = r => j <= k

\* two create calls for one name: the first accepted, the second issued by the
\* other run after a not-found lookup and refused as a duplicate
C17_Witness ==
    \E k1, k2 \in Calls :
        /\ k1 < k2
        /\ createLog[k1].res = createLog[k2].res
        /\ createLog[k1].res \in EnsureResources
        /\ createLog[k1].run # createLog[k2].run
        /\ createLog[k1].was = "absent"
        /\ createLog[k2].was # "absent"
        /\ createLog[k2].lookup = "404"
        /\ run[createLog[k2].run].outcome = HttpError("409")

\* C18 -- one operation at a time: a run has at most one operation it issued
\* and has not yet fetched as DONE, namely the one it is waiting for; whenever
\* it is about to issue a mutating call, or has ended, it has none.
Unawaited(r) == {o \in 1..Len(ops) : ops[o].owner = r /\ ~ops[o].observed}

C18_OneOperationAtATime ==
    \A r \in Runs :
        /\ Cardinality(Unawaited(r)) <= 1
        /\ \A o \in Unawaited(r) : run[r].pc \in WaitPcs /\ run[r].op = o
        /\ run[r].pc \in InsertPcs => Unawaited(r) = {}

\* a run waiting for its second operation, the first one fetched as DONE
C18_Witness ==
    \E r \in Runs : \E o \in 1..Len(ops) :
        /\ ops[o].owner = r /\ ops[o].observed
        /\ Cardinality(Unawaited(r)) = 1
        /\ run[r].pc \in WaitPcs

\* C19 -- the readiness wait tolerates an absent instance: a pass of the loop
\* whose lookup answers 404 counts as one attempt, finds no address and leaves
\* the run in the loop; the wait ends before the attempts are used up only by
\* finding an address or by a lookup failure other than 404, which is raised.
C19_AbsentInstanceRetried ==
    [][\A r \in Runs :
          (/\ run[r].pc = "p1_wait_ip"
           /\ run[r].attempts < ReadinessAttempts
           /\ run'[r] # run[r]) =>
              /\ run'[r].attempts = run[r].attempts + 1
              /\ run'[r].lastLookup = "404" =>
                    run'[r].pc = "p1_wait_ip" /\ run'[r].ipAt = 0
              /\ run'[r].pc = "done" =>
                    run'[r].lastLookup = "200" /\ BaseInstance \in natIP
              /\ run'[r].pc = "failed" =>
                    /\ run'[r].lastLookup \notin {"200", "404"}
                    /\ run'[r].outcome = HttpError(run'[r].lastLookup)]_vars

\* two passes of the loop have been made, the last one on an absent instance
C19_Witness ==
    \E r \in Runs :
        /\ run[r].pc = "p1_wait_ip"
        /\ run[r].attempts >= 2
        /\ run[r].lastLookup = "404"
        /\ inv[BaseInstance] = "absent"

====
